---- MODULE Spec2Model ----
(***************************************************************************)
(* Model of the timeseries windowing code of gordo/machine/model/models.py *)
(* (pad_x_and_y, create_keras_timeseriesgenerator, the generator type      *)
(* registry, DefaultTimeseriesGenertor, GordoTimeseriesGenerator), of fit, *)
(* predict and score of the Keras estimators built on top of it, and of    *)
(* extract_metadata_from_model of gordo/machine/model/utils.py.            *)
(*                                                                         *)
(* Four specifications share the variables: Spec runs a generator made by  *)
(* create_keras_timeseriesgenerator, SpecEstimator an estimator,           *)
(* SpecRegistry the registry of generator types, SpecMetadata one call of  *)
(* extract_metadata_from_model.  Each leaves the others' variables idle.   *)
(*                                                                         *)
(* A table (numpy array or pandas DataFrame) of N rows is represented by   *)
(* its row ids 1..N; a DataFrame also has a sorted index of timestamps     *)
(* (minutes).  An array of rows is a sequence of row ids, the id 0 being   *)
(* the zero row that pad_sequences inserts.  Python positions are 0-based, *)
(* TLA+ sequences 1-based: position p of Python is element p + 1 here.     *)
(***************************************************************************)
EXTENDS Integers, Sequences, FiniteSets, TLC

\* ------------------------------------------------------------------ bounds
MaxRows == 6        \* rows of the input table
MaxLength == 2      \* window length (lookback_window)
MaxBatch == 2       \* batch_size
MaxLookahead == 2   \* lookahead is drawn from -1..MaxLookahead
MaxIndexes == 2     \* length of the list given to filter_chunks
MaxOutside == 2     \* how far outside [0, len) an index given to __getitem__ lies

\* default step of GordoTimeseriesGenerator, "10min", in minutes
Step == 10
\* Python's None where the code holds a timestamp or nothing
NoneTs == -1

Min(a, b) == IF a < b THEN a ELSE b
Max(a, b) == IF a > b THEN a ELSE b

\* ------------------------------------------------------- Python sequences
\* s[a:b] of Python: negative positions count from the end, all are clamped
PySlice(s, a, b) ==
    LET n == Len(s)
        norm(x) == IF x < 0 THEN Max(x + n, 0) ELSE Min(x, n)
        lo == norm(a)
        hi == norm(b)
    IN IF lo >= hi THEN << >> ELSE SubSeq(s, lo + 1, hi)

\* s[:n] of Python
PyHead(s, n) == PySlice(s, 0, n)

\* s[-n:] of Python; s[-0:] is the whole of s
PyTail(s, n) == IF n = 0 THEN s ELSE PySlice(s, -n, Len(s))

\* the position s[p] of Python reads: -1 when it raises IndexError
PyPos(s, p) ==
    IF p >= 0 /\ p < Len(s) THEN p
    ELSE IF p < 0 /\ p >= -Len(s) THEN p + Len(s)
    ELSE -1

\* the rows 1..n of a table
RowIds(n) == [r \in 1..n |-> r]

\* ------------------------------------------------------------ input tables
\* sorted, duplicate-free indexes of n timestamps starting at 0; consecutive
\* timestamps are one step apart, or two steps apart (a gap)
RECURSIVE IndexSeqs(_)
IndexSeqs(n) ==
    IF n = 0 THEN {<< >>}
    ELSE IF n = 1 THEN {<<0>>}
    ELSE {Append(s, s[n - 1] + d) : s \in IndexSeqs(n - 1), d \in {Step, 2 * Step}}

RECURSIVE IndexesUpTo(_)
IndexesUpTo(n) == IF n = 0 THEN IndexSeqs(0) ELSE IndexSeqs(n) \cup IndexesUpTo(n - 1)

\* a pandas DataFrame with the given index, or a numpy array of n rows
DataFrames == {[frame |-> TRUE, n |-> Len(ix), index |-> ix] : ix \in IndexesUpTo(MaxRows)}
Arrays == {[frame |-> FALSE, n |-> n, index |-> << >>] : n \in 0..MaxRows}
Tables == DataFrames \cup Arrays

\* ------------------------------------ keras TimeseriesGenerator (library)
ValueError == [kind |-> "ValueError"]

\* TimeseriesGenerator(data, targets, length, batch_size=, shuffle=) with the
\* defaults sampling_rate = 1, stride = 1, start_index = 0, end_index = None
TimeseriesGenerator(data, targets, length, batch_size, shuffle) ==
    IF Len(data) # Len(targets) THEN ValueError
    ELSE IF length > Len(data) - 1 THEN ValueError
    ELSE [kind |-> "TimeseriesGenerator", data |-> data, targets |-> targets,
          length |-> length, batch_size |-> batch_size, shuffle |-> shuffle,
          start_index |-> length, end_index |-> Len(data) - 1]

\* TimeseriesGenerator.__len__: the number of batches
KerasLen(gen) == (gen.end_index - gen.start_index + gen.batch_size) \div gen.batch_size

\* the rows (0-based positions of the targets) that batch `index` may hold:
\* random ones when shuffling, else batch_size consecutive ones
KerasRows(gen, index) ==
    IF gen.shuffle
    THEN [1..gen.batch_size -> gen.start_index..gen.end_index]
    ELSE LET i == gen.start_index + gen.batch_size * index
             hi == Min(i + gen.batch_size, gen.end_index + 1)
         IN {[j \in 1..Max(hi - i, 0) |-> i + j - 1]}

\* one sample per row: the `length` rows before it and the target at it
KerasSamples(gen, rows) ==
    [j \in 1..Len(rows) |->
        [window |-> PySlice(gen.data, rows[j] - gen.length, rows[j]),
         target |-> LET p == PyPos(gen.targets, rows[j])
                    IN IF p < 0 THEN -1 ELSE gen.targets[p + 1]]]

\* TimeseriesGenerator.__getitem__: the outcomes of generator[index].  Windows
\* of different lengths make numpy raise ValueError or build an object array,
\* depending on its version; a target row outside the array is an IndexError.
KerasGetItem(gen, index) ==
    UNION {
        LET samples == KerasSamples(gen, rows)
            ragged == \E a, b \in 1..Len(rows) :
                          Len(samples[a].window) # Len(samples[b].window)
            badrow == \E a \in 1..Len(rows) : PyPos(gen.targets, rows[a]) < 0
        IN  (IF ragged THEN {[kind |-> "ValueError", samples |-> << >>]} ELSE {})
            \cup (IF badrow THEN {[kind |-> "IndexError", samples |-> << >>]}
                  ELSE {[kind |-> "batch", samples |-> samples]})
        : rows \in KerasRows(gen, index)}

\* ------------------------------------------------ GordoTimeseriesGenerator
TimeseriesChunk(start_ts, end_ts, size) ==
    [start_ts |-> start_ts, end_ts |-> end_ts, size |-> size]

TimeseriesGeneratorContainer(generator, chunk, length) ==
    [generator |-> generator, chunk |-> chunk, length |-> length]

\* the loop of find_consecutive_chunks from row i (0-based) on
RECURSIVE FindChunksLoop(_, _, _, _, _, _, _)
FindChunksLoop(index, step, i, prev_ts, start_ts, start_i, chunks) ==
    IF i >= Len(index)
    THEN IF start_ts # NoneTs
         THEN Append(chunks, TimeseriesChunk(start_ts, prev_ts, Len(index) - start_i))
         ELSE chunks
    ELSE LET dt == index[i + 1]
         IN IF prev_ts = NoneTs
            THEN FindChunksLoop(index, step, i + 1, dt, dt, start_i, chunks)
            ELSE IF dt - prev_ts = step
            THEN FindChunksLoop(index, step, i + 1, dt, start_ts, start_i, chunks)
            ELSE FindChunksLoop(index, step, i + 1, NoneTs, NoneTs, i,
                     Append(chunks, TimeseriesChunk(start_ts, prev_ts, i - start_i)))

find_consecutive_chunks(df, step) ==
    FindChunksLoop(df.index, step, 0, NoneTs, NoneTs, 0, << >>)

\* df[start_ts : end_ts].values: the rows whose timestamp is in the closed range
RECURSIVE LocSliceFrom(_, _, _, _)
LocSliceFrom(index, r, start_ts, end_ts) ==
    IF r > Len(index) THEN << >>
    ELSE (IF start_ts <= index[r] /\ index[r] <= end_ts THEN <<r>> ELSE << >>)
         \o LocSliceFrom(index, r + 1, start_ts, end_ts)

\* the slice with its end left open, df[start_ts:]
LocSliceOpenEnd(df, start_ts, end_ts) ==
    LocSliceFrom(df.index, 1, start_ts, IF df.n = 0 THEN end_ts ELSE df.index[df.n])

LocSlice(df, start_ts, end_ts) == LocSliceFrom(df.index, 1, start_ts, end_ts)

\* the loop of create_generator_containers from chunk j (1-based) on; `length`
\* is the local variable of that name, which the loop assigns to
RECURSIVE ContainersLoop(_, _, _, _, _, _, _, _, _)
ContainersLoop(chunks, j, data, targets, length, batch_size, shuffle, containers, failed) ==
    IF j > Len(chunks)
    THEN [containers |-> containers, failed_chunks |-> failed]
    ELSE LET chunk == chunks[j]
             gen_data == LocSlice(data, chunk.start_ts, chunk.end_ts)
             gen_target == LocSlice(targets, chunk.start_ts, chunk.end_ts)
             generator == TimeseriesGenerator(gen_data, gen_target, length,
                                              batch_size, shuffle)
         IN IF generator.kind = "ValueError"
            THEN ContainersLoop(chunks, j + 1, data, targets, length, batch_size,
                                shuffle, containers, Append(failed, chunk))
            ELSE ContainersLoop(chunks, j + 1, data, targets, KerasLen(generator),
                                batch_size, shuffle,
                                Append(containers,
                                       TimeseriesGeneratorContainer(
                                           generator, chunk, KerasLen(generator))),
                                failed)

create_generator_containers(chunks, data, targets, length, batch_size, shuffle) ==
    ContainersLoop(chunks, 1, data, targets, length, batch_size, shuffle, << >>, << >>)

\* GordoTimeseriesGenerator.__init__: the object built, or the error raised
GordoTimeseriesGenerator(data, targets, length, batch_size, shuffle, step, lookahead) ==
    IF ~data.frame THEN ValueError
    ELSE IF ~targets.frame THEN ValueError
    ELSE IF data.n # targets.n THEN ValueError
    ELSE LET consecutive_chunks == find_consecutive_chunks(data, step)
             made == create_generator_containers(consecutive_chunks, data, targets,
                                                 length, batch_size, shuffle)
         IN IF made.containers = << >> THEN ValueError
            ELSE [kind |-> "GordoTimeseriesGenerator",
                  step |-> step,
                  consecutive_chunks |-> consecutive_chunks,
                  failed_chunks |-> made.failed_chunks,
                  generators_containers |-> made.containers,
                  lookahead |-> lookahead]

\* GordoTimeseriesGenerator.__len__
RECURSIVE SumLengths(_, _)
SumLengths(containers, upto) ==
    IF upto = 0 THEN 0 ELSE SumLengths(containers, upto - 1) + containers[upto].length

GordoLen(self) == SumLengths(self.generators_containers, Len(self.generators_containers))

\* the scan below with the comparison index < new_i
RECURSIVE GetItemScanStrict(_, _, _, _)
GetItemScanStrict(containers, c, i, index) ==
    IF c > Len(containers) THEN [container |-> 0, gen_i |-> 0]
    ELSE LET new_i == i + containers[c].length
         IN IF index < new_i
            THEN [container |-> c, gen_i |-> index - i - 1]
            ELSE GetItemScanStrict(containers, c + 1, new_i, index)

\* the scan of GordoTimeseriesGenerator.__getitem__ from container c on, with
\* its running variable i: the container it delegates to and the local index
\* it hands over, container 0 when it falls through to raise IndexError
RECURSIVE GetItemScan(_, _, _, _)
GetItemScan(containers, c, i, index) ==
    IF c > Len(containers) THEN [container |-> 0, gen_i |-> 0]
    ELSE LET new_i == i + containers[c].length
         IN IF index <= new_i
            THEN [container |-> c, gen_i |-> index - i - 1]
            ELSE GetItemScan(containers, c + 1, new_i, index)

GordoLocate(self, index) == GetItemScan(self.generators_containers, 1, -1, index)

\* GordoTimeseriesGenerator.__getitem__: the outcomes of self[index]
GordoGetItem(self, index) ==
    LET at == GordoLocate(self, index)
    IN IF at.container = 0
       THEN {[kind |-> "IndexError", index |-> index, container |-> 0, gen_i |-> 0,
              samples |-> << >>]}
       ELSE {[kind |-> out.kind, index |-> index, container |-> at.container,
              gen_i |-> at.gen_i, samples |-> out.samples]
             : out \in KerasGetItem(self.generators_containers[at.container].generator,
                                    at.gen_i)}

\* Python's None where the code holds a mapping, a list or nothing
None == [none |-> TRUE]

\* a list of positions as an argument that may also be None
IndexList(l) == [list |-> l]

\* GordoTimeseriesGenerator.filter_chunks: the generator afterwards; `indexes`
\* is None or IndexList(l).  An index a Python list rejects raises IndexError
\* and the attribute is not assigned.
filter_chunks(self, indexes) ==
    IF indexes = None THEN self
    ELSE IF \E k \in 1..Len(indexes.list) :
                PyPos(self.generators_containers, indexes.list[k]) < 0
    THEN self
    ELSE [self EXCEPT !.generators_containers =
             [k \in 1..Len(indexes.list) |->
                 self.generators_containers[
                     PyPos(self.generators_containers, indexes.list[k]) + 1]]]

\* ------------------------------------------------------------ pad_x_and_y
\* pad_sequences([s], maxlen=, padding=, truncating=)[0] of keras, value 0
pad_sequences(s, maxlen, padding, truncating) ==
    IF maxlen < 0 THEN ValueError
    ELSE IF Len(s) = 0 THEN [kind |-> "array", rows |-> [j \in 1..maxlen |-> 0]]
    ELSE LET trunc == IF truncating = "pre" THEN PyTail(s, maxlen) ELSE PyHead(s, maxlen)
             zeros == [j \in 1..(maxlen - Len(trunc)) |-> 0]
         IN IF Len(trunc) > maxlen THEN ValueError
            ELSE [kind |-> "array",
                  rows |-> IF padding = "post" THEN trunc \o zeros ELSE zeros \o trunc]

\* pad_x_and_y that pads the targets on the trailing edge, like the inputs
pad_x_and_y_post(X, y, lookahead) ==
    LET new_length == Len(X) + 1 - lookahead
    IN IF lookahead = 1 THEN [kind |-> "ok", X |-> X, y |-> y]
       ELSE IF lookahead >= 0
       THEN LET pX == pad_sequences(X, new_length, "post", "post")
                pY == pad_sequences(y, new_length, "post", "post")
            IN IF pX.kind = "ValueError" \/ pY.kind = "ValueError" THEN ValueError
               ELSE [kind |-> "ok", X |-> pX.rows, y |-> pY.rows]
       ELSE ValueError

\* pad_x_and_y with new_length one row short, len(X) - lookahead
pad_x_and_y_short(X, y, lookahead) ==
    LET new_length == Len(X) - lookahead
    IN IF lookahead = 1 THEN [kind |-> "ok", X |-> X, y |-> y]
       ELSE IF lookahead >= 0
       THEN LET pX == IF lookahead = 0
                      THEN pad_sequences(X, new_length, "post", "pre")
                      ELSE pad_sequences(X, new_length, "post", "post")
                pY == pad_sequences(y, new_length, "pre", "pre")
            IN IF pX.kind = "ValueError" \/ pY.kind = "ValueError" THEN ValueError
               ELSE [kind |-> "ok", X |-> pX.rows, y |-> pY.rows]
       ELSE ValueError

pad_x_and_y(X, y, lookahead) ==
    LET new_length == Len(X) + 1 - lookahead
    IN IF lookahead = 1 THEN [kind |-> "ok", X |-> X, y |-> y]
       ELSE IF lookahead >= 0
       THEN LET pX == IF lookahead = 0
                      THEN pad_sequences(X, new_length, "post", "pre")
                      ELSE pad_sequences(X, new_length, "post", "post")
                pY == pad_sequences(y, new_length, "pre", "pre")
            IN IF pX.kind = "ValueError" \/ pY.kind = "ValueError" THEN ValueError
               ELSE [kind |-> "ok", X |-> pX.rows, y |-> pY.rows]
       ELSE ValueError

\* DefaultTimeseriesGenertor.__init__; shuffle is keras' default, False
DefaultTimeseriesGenertor(data, targets, lookahead, length, batch_size) ==
    LET padded == pad_x_and_y(RowIds(data.n), RowIds(targets.n), lookahead)
    IN IF padded.kind = "ValueError" THEN ValueError
       ELSE TimeseriesGenerator(padded.X, padded.y, length, batch_size, FALSE)

\* ------------------------------------------------ TimeseriesGeneratorTypes
\* a keyword argument, or the default of the parameter
Kw(kwargs, key, default) == IF key \in DOMAIN kwargs THEN kwargs[key] ELSE default

\* dict.update: the entries of `other` win
Update(d, other) ==
    [k \in DOMAIN d \cup DOMAIN other |-> IF k \in DOMAIN other THEN other[k] ELSE d[k]]

\* dict.pop(key)
Pop(d, key) == [k \in DOMAIN d \ {key} |-> d[k]]

\* cls(**kwargs) for the two generator classes of the module
Instantiate(cls, kwargs) ==
    IF cls = "DefaultTimeseriesGenertor"
    THEN DefaultTimeseriesGenertor(kwargs.data, kwargs.targets, Kw(kwargs, "lookahead", 1),
                                   kwargs.length, Kw(kwargs, "batch_size", 128))
    ELSE GordoTimeseriesGenerator(kwargs.data, kwargs.targets, kwargs.length,
                                  Kw(kwargs, "batch_size", 128),
                                  Kw(kwargs, "shuffle", FALSE),
                                  Kw(kwargs, "step", Step),
                                  Kw(kwargs, "lookahead", 1))

\* the registry after the module is imported
timeseries_generators ==
    [default_type |-> "DefaultTimeseriesGenertor",
     types |-> [GordoTimeseriesGenerator |-> "GordoTimeseriesGenerator"]]

\* a mapping without keys
EmptyDict == [k \in {} |-> TRUE]

\* what a create_from_config call comes to: the constructor it calls and the
\* keyword arguments it passes, or the error it raises, with the caller's
\* config mapping and the registry as the call leaves them
Calls(cls, kwargs, config, types) ==
    [kind |-> "call", cls |-> cls, kwargs |-> kwargs, config |-> config, types |-> types]
Fails(error, config, types) ==
    [kind |-> error, cls |-> "None", kwargs |-> EmptyDict, config |-> config,
     types |-> types]

\* create_from_config with the config entries overriding the shared kwargs
create_from_config_call_config_wins(self, config, kwargs) ==
    IF config = None THEN Calls(self.default_type, kwargs, config, self.types)
    ELSE IF "type" \notin DOMAIN config THEN Fails("ValueError", config, self.types)
    ELSE IF config.type \notin DOMAIN self.types
    THEN Fails("ValueError", config, self.types)
    ELSE Calls(self.types[config.type], Update(kwargs, Pop(config, "type")),
               config, self.types)

\* TimeseriesGeneratorTypes.create_from_config up to its constructor call; the
\* "type" entry is popped from a copy of config
create_from_config_call(self, config, kwargs) ==
    IF config = None THEN Calls(self.default_type, kwargs, config, self.types)
    ELSE IF "type" \notin DOMAIN config THEN Fails("ValueError", config, self.types)
    ELSE IF config.type \notin DOMAIN self.types
    THEN Fails("ValueError", config, self.types)
    ELSE Calls(self.types[config.type], Update(Pop(config, "type"), kwargs),
               config, self.types)

\* the constructor call made, or the error passed on
Returned(c) == IF c.kind = "call" THEN Instantiate(c.cls, c.kwargs) ELSE [kind |-> c.kind]

create_from_config(self, config, kwargs) ==
    Returned(create_from_config_call(self, config, kwargs))

\* a registration that rebinds a name already registered
register_overwrite(types, type_name, cls) ==
    [kind |-> "registered",
     types |-> Update(types, [k \in {type_name} |-> cls])]

\* TimeseriesGeneratorTypes.__call__(type_name)(cls): the registry afterwards,
\* or ValueError with the registry as it was
register(types, type_name, cls) ==
    IF type_name \in DOMAIN types THEN [kind |-> "ValueError", types |-> types]
    ELSE [kind |-> "registered",
          types |-> Update(types, [k \in {type_name} |-> cls])]

create_keras_timeseriesgenerator(X, y, batch_size, lookback_window, lookahead, config) ==
    create_from_config(timeseries_generators, config,
                       [data |-> X, targets |-> y, length |-> lookback_window,
                        batch_size |-> batch_size, lookahead |-> lookahead])

\* the timeseries_generator configurations tried
Configs ==
    {None, [type |-> "GordoTimeseriesGenerator"],
     [type |-> "GordoTimeseriesGenerator", shuffle |-> TRUE]}

\* --------------------------------------------- KerasLSTMBaseEstimator.fit
\* X[:n] of Python on a table: its first n rows
TableHead(T, n) ==
    [frame |-> T.frame, n |-> Len(PyHead(RowIds(T.n), n)), index |-> PyHead(T.index, n)]

\* the estimator classes and the lookahead property of the LSTM ones
LSTMClasses == {"KerasLSTMForecast", "KerasLSTMAutoEncoder"}
Classes == {"KerasAutoEncoder"} \cup LSTMClasses
Lookahead(cls) == IF cls = "KerasLSTMForecast" THEN 1 ELSE 0

\* the keyword arguments fit forwards to fit_generator
FitGeneratorParams ==
    {"steps_per_epoch", "epochs", "verbose", "callbacks", "validation_data",
     "validation_steps", "validation_freq", "class_weight", "max_queue_size",
     "workers", "use_multiprocessing", "initial_epoch"}

\* the estimator training has not reached fit_generator with
NoMain ==
    [ran |-> FALSE, shuffle |-> FALSE, gen_kwargs |-> EmptyDict, tsg_shuffle |-> FALSE,
     rows |-> 0, length |-> 0, batch_sizes |-> {}]

\* the estimator has not been primed: the wrapper's fit was not called
NoPrime == [ran |-> FALSE, rows |-> 0, length |-> 0, batch_sizes |-> {}, samples |-> 0,
            epochs |-> 0]

\* the estimator of class cls before fit: it has no model attribute; kwargs are
\* the constructor's keyword arguments besides timeseries_generator
NewEstimator(cls, kwargs) ==
    [cls |-> cls, kwargs |-> kwargs, called |-> FALSE, model |-> FALSE,
     raised |-> "None", trace |-> << >>, prime |-> NoPrime, main |-> NoMain]

Raised(self, error) == [self EXCEPT !.called = TRUE, !.raised = error]
Reached(self, phase) == [self EXCEPT !.trace = Append(@, phase)]

\* tsg[0] as fit takes it: the outcomes, a batch of samples or an error
PrimerBatch(gen) ==
    IF gen.kind = "GordoTimeseriesGenerator"
    THEN {[kind |-> o.kind, samples |-> o.samples] : o \in GordoGetItem(gen, 0)}
    ELSE KerasGetItem(gen, 0)

\* the batch sizes of the TimeseriesGenerator(s) of a windower
TsgBatchSizes(gen) ==
    IF gen.kind = "GordoTimeseriesGenerator"
    THEN {gen.generators_containers[c].generator.batch_size
          : c \in 1..Len(gen.generators_containers)}
    ELSE {gen.batch_size}

\* the priming slice taken to be the whole table
PrimerSliceWhole(T, la, lookback) == T

\* X[: self.lookahead + self.lookback_window], the rows fit primes the model on
PrimerSlice(T, la, lookback) == TableHead(T, la + lookback)

\* the generator draws the rows of its batches at random
TsgShuffle(gen) ==
    IF gen.kind = "GordoTimeseriesGenerator"
    THEN \E c \in 1..Len(gen.generators_containers) :
             gen.generators_containers[c].generator.shuffle
    ELSE gen.shuffle

\* the restriction of a mapping to the keys in `keys`
Restrict(d, keys) == [k \in DOMAIN d \cap keys |-> d[k]]

\* KerasLSTMBaseEstimator.fit(X, y, **kwargs) on the estimator `self` of a
\* class whose lookahead property is `la`: the estimators it may leave behind.
\* The trace lists the steps fit completed: the size check of an array, the
\* priming windower, the priming fit (which builds the model), the full
\* windower, fit_generator; prime records what the priming fit was given, main
\* what fit_generator was called with.
fit(self, data, y, kwargs, lookback, batch, la, cfg) ==
    IF ~data.frame /\ lookback >= data.n THEN {Raised(self, "ValueError")}
    ELSE
    LET checked == IF data.frame THEN self ELSE Reached(self, "validate")
        primer == create_keras_timeseriesgenerator(
                      PrimerSlice(data, la, lookback), PrimerSlice(y, la, lookback),
                      1, lookback, la, cfg)
    IN IF primer.kind = "ValueError" THEN {Raised(checked, "ValueError")}
       ELSE
       {IF o.kind # "batch" THEN Raised(Reached(checked, "prime_tsg"), o.kind)
        ELSE LET primed == [Reached(Reached(checked, "prime_tsg"), "prime_fit")
                               EXCEPT !.model = TRUE,
                                      !.prime = [ran |-> TRUE,
                                                 rows |-> PrimerSlice(data, la, lookback).n,
                                                 length |-> lookback,
                                                 batch_sizes |-> TsgBatchSizes(primer),
                                                 samples |-> Len(o.samples),
                                                 epochs |-> 1]]
                 full == create_keras_timeseriesgenerator(data, y, batch, lookback,
                                                          la, cfg)
                 gen_kwargs == Restrict(Update(self.kwargs, kwargs), FitGeneratorParams)
             IN IF full.kind = "ValueError" THEN Raised(primed, "ValueError")
                ELSE [Reached(Reached(primed, "main_tsg"), "main_fit")
                         EXCEPT !.called = TRUE,
                                !.main = [ran |-> TRUE, shuffle |-> FALSE,
                                          gen_kwargs |-> gen_kwargs,
                                          tsg_shuffle |-> TsgShuffle(full),
                                          rows |-> data.n, length |-> lookback,
                                          batch_sizes |-> TsgBatchSizes(full)]]
        : o \in PrimerBatch(primer)}

\* KerasBaseEstimator.fit, the fit of KerasAutoEncoder: the scikit-learn
\* wrapper builds the model and trains it on the arrays
base_fit(self) == {[self EXCEPT !.called = TRUE, !.model = TRUE]}

\* ------------------------------------------------- predict and score
\* the batch size predict windows its input with
PredictBatchSize == 10000

\* the number of samples in batch i of a keras generator
KerasBatchLen(gen, i) ==
    IF gen.shuffle THEN gen.batch_size
    ELSE LET lo == gen.start_index + gen.batch_size * i
         IN Max(Min(lo + gen.batch_size, gen.end_index + 1) - lo, 0)

\* the number of samples in the first n batches of a generator
RECURSIVE SamplesIn(_, _)
SamplesIn(gen, n) ==
    IF n = 0 THEN 0
    ELSE SamplesIn(gen, n - 1) +
         (IF gen.kind = "GordoTimeseriesGenerator"
          THEN LET at == GordoLocate(gen, n - 1)
               IN KerasBatchLen(gen.generators_containers[at.container].generator,
                                at.gen_i)
          ELSE KerasBatchLen(gen, n - 1))

\* the result of a call when it returns an array of `rows` rows, returns a
\* score, or raises
ReturnsRows(op, rows) == [op |-> op, kind |-> "rows", rows |-> rows]
ReturnsScore(op, rows) == [op |-> op, kind |-> "score", rows |-> rows]
Raises(op, error) == [op |-> op, kind |-> error, rows |-> 0]

\* KerasLSTMBaseEstimator.predict(X): the size check of an array, the windower
\* with y = X and batch size 10000, then self.model.predict_generator, which
\* gives one row per sample of every batch
lstm_predict(self, data, lookback, la, cfg) ==
    IF ~data.frame /\ lookback >= data.n THEN Raises("predict", "ValueError")
    ELSE LET gen == create_keras_timeseriesgenerator(data, data, PredictBatchSize,
                                                     lookback, la, cfg)
         IN IF gen.kind = "ValueError" THEN Raises("predict", "ValueError")
            ELSE IF ~self.model THEN Raises("predict", "AttributeError")
            ELSE ReturnsRows("predict",
                      SamplesIn(gen, IF gen.kind = "GordoTimeseriesGenerator"
                                     THEN GordoLen(gen) ELSE KerasLen(gen)))

\* explained_variance_score(y[-len(out):], out) at the end of score: it raises
\* ValueError when the two differ in length
lstm_score_of(out, y) ==
    IF out.kind # "rows" THEN Raises("score", out.kind)
    ELSE IF Min(out.rows, y.n) # out.rows \/ (out.rows = 0 /\ y.n # 0)
    THEN Raises("score", "ValueError")
    ELSE ReturnsScore("score", out.rows)

\* KerasLSTMBaseEstimator.score(X, y)
lstm_score(self, data, y, lookback, la, cfg) ==
    IF ~self.model THEN Raises("score", "NotFittedError")
    ELSE lstm_score_of(lstm_predict(self, data, lookback, la, cfg), y)

\* KerasBaseEstimator.predict(X), the predict of KerasAutoEncoder
base_predict(self, data) ==
    IF ~self.model THEN Raises("predict", "AttributeError")
    ELSE ReturnsRows("predict", data.n)

\* KerasAutoEncoder.score(X, y)
autoencoder_score(self, data, y) ==
    IF ~self.model THEN Raises("score", "NotFittedError")
    ELSE IF y.n # data.n THEN Raises("score", "ValueError")
    ELSE ReturnsScore("score", data.n)

\* ------------------------------------- extract_metadata_from_model (utils)
\* the most steps a pipeline is given
MaxSteps == 3

\* the objects: a GordoBase model whose get_metadata() returns `meta`, another
\* scikit-learn estimator, a Pipeline of steps, and a value that is none of
\* them; attrs are the values of the object's __dict__
GordoModel(meta, attrs) == [type |-> "GordoBase", meta |-> meta, attrs |-> attrs]
Estimator(attrs) == [type |-> "BaseEstimator", attrs |-> attrs]
Pipeline(steps) == [type |-> "Pipeline", steps |-> steps]
Value == [type |-> "value"]

\* the outcomes: the mapping returned, or the IndexError of a subscript
Extracted(metadata) == [kind |-> "ok", metadata |-> metadata]
IndexError == [kind |-> "IndexError", metadata |-> EmptyDict]

\* metadata.update(r) for the outcome r of a nested call
UpdateWith(metadata, r) ==
    IF r.kind # "ok" THEN r ELSE Extracted(Update(metadata, r.metadata))

\* extract_metadata_from_model(model, metadata), and the loop over
\* model.__dict__.values() from the i-th value on with the outcome so far
RECURSIVE extract_metadata_from_model(_, _), ExtractFromAttrs(_, _, _)
extract_metadata_from_model(model, metadata) ==
    IF model.type = "Pipeline"
    THEN IF PyPos(model.steps, -2) < 0 THEN IndexError
         ELSE UpdateWith(metadata,
                  extract_metadata_from_model(
                      model.steps[PyPos(model.steps, -2) + 1], EmptyDict))
    ELSE ExtractFromAttrs(model.attrs, 1,
             IF model.type = "GordoBase"
             THEN Extracted(Update(metadata, model.meta))
             ELSE Extracted(metadata))

ExtractFromAttrs(attrs, i, sofar) ==
    IF sofar.kind # "ok" \/ i > Len(attrs) THEN sofar
    ELSE ExtractFromAttrs(attrs, i + 1,
             IF attrs[i].type = "Pipeline"
             THEN IF PyPos(attrs[i].steps, -2) < 0 THEN IndexError
                  ELSE UpdateWith(sofar.metadata,
                           extract_metadata_from_model(
                               attrs[i].steps[PyPos(attrs[i].steps, -2) + 1],
                               EmptyDict))
             ELSE IF attrs[i].type \in {"GordoBase", "BaseEstimator"}
             THEN UpdateWith(sofar.metadata,
                             extract_metadata_from_model(attrs[i], EmptyDict))
             ELSE sofar)

\* ------------------------------------------------------------------ state
VARIABLES
    X,                \* the input table; the targets y are a table of the same shape
    lookback_window,  \* window length
    batch_size,
    lookahead,
    config,           \* the timeseries_generator configuration
    tsg,              \* the generator made by create_keras_timeseriesgenerator
    res,              \* the outcome of the last tsg[index]
    est,              \* an estimator built with these parameters
    ret,              \* the outcome of the last est.predict or est.score
    types,            \* timeseries_generators._types: name -> class
    call,             \* the outcome of the last call on timeseries_generators
    given_model,      \* the object handed to extract_metadata_from_model
    given_metadata,   \* the caller's metadata mapping
    extracted         \* what extract_metadata_from_model returned or raised

vars == <<X, lookback_window, batch_size, lookahead, config, tsg, res, est, ret,
          types, call, given_model, given_metadata, extracted>>

registry == <<types, call>>

extraction == <<given_model, given_metadata, extracted>>

inputs == <<X, lookback_window, batch_size, lookahead, config>>

NoTsg == [kind |-> "None"]
NoRes == [kind |-> "None", index |-> 0, len |-> 0, container |-> 0, gen_i |-> 0,
          samples |-> << >>]

\* no estimator is in play
NoEstimator == NewEstimator("None", EmptyDict)
NoOut == [op |-> "None", kind |-> "None", rows |-> 0, n |-> 0]
NoExtraction == [kind |-> "None", metadata |-> EmptyDict, given |-> EmptyDict]
NoCall == [op |-> "None", kind |-> "None", name |-> "None", cls |-> "None",
           kwargs |-> EmptyDict, returned |-> "None"]

IsGordo == tsg.kind = "GordoTimeseriesGenerator"
IsDefault == tsg.kind = "TimeseriesGenerator"

\* len(tsg)
TsgLen == IF IsGordo THEN GordoLen(tsg) ELSE KerasLen(tsg)

Init ==
    /\ X \in Tables
    /\ lookback_window \in 1..MaxLength
    /\ batch_size \in 1..MaxBatch
    /\ lookahead \in (-1)..MaxLookahead
    /\ config \in Configs
    /\ tsg = NoTsg
    /\ res = NoRes
    /\ est = NoEstimator
    /\ ret = NoOut
    /\ types = timeseries_generators.types
    /\ call = NoCall
    /\ given_model = Value
    /\ given_metadata = EmptyDict
    /\ extracted = NoExtraction

\* tsg = create_keras_timeseriesgenerator(X, y, ...)
Create ==
    /\ tsg.kind = "None"
    /\ tsg' = create_keras_timeseriesgenerator(X, X, batch_size, lookback_window,
                                               lookahead, config)
    /\ UNCHANGED <<inputs, registry, extraction, res, est, ret>>

\* tsg[index], by a caller that holds no batch
GetItem ==
    /\ IsGordo \/ IsDefault
    /\ res = NoRes
    /\ \E index \in (-MaxOutside)..(TsgLen - 1 + MaxOutside) :
         \E out \in IF IsGordo THEN GordoGetItem(tsg, index)
                    ELSE {[kind |-> o.kind, index |-> index, container |-> 0,
                           gen_i |-> index, samples |-> o.samples]
                          : o \in KerasGetItem(tsg, index)} :
            res' = [kind |-> out.kind, index |-> index, len |-> TsgLen,
                    container |-> out.container, gen_i |-> out.gen_i,
                    samples |-> out.samples]
    /\ UNCHANGED <<inputs, registry, extraction, tsg, est, ret>>

\* the lists of at most n positions given to filter_chunks
RECURSIVE IndexLists(_, _)
IndexLists(S, n) ==
    IF n = 0 THEN {<< >>}
    ELSE IndexLists(S, n - 1) \cup {Append(l, e) : l \in IndexLists(S, n - 1), e \in S}

\* the caller drops the batch, or handles the error, it got
Return ==
    /\ res # NoRes
    /\ res' = NoRes
    /\ UNCHANGED <<inputs, registry, extraction, tsg, est, ret>>

\* tsg.filter_chunks(indexes), by a caller that holds no batch
FilterChunks ==
    /\ IsGordo
    /\ res = NoRes
    /\ \E indexes \in {None} \cup
            {IndexList(l) : l \in IndexLists((-1)..Len(tsg.generators_containers),
                                             MaxIndexes)} :
          tsg' = filter_chunks(tsg, indexes)
    /\ UNCHANGED <<inputs, registry, extraction, res, est, ret>>

Next == Create \/ GetItem \/ Return \/ FilterChunks

Spec == Init /\ [][Next]_vars

\* ------------------------------------------------- the estimators' runs
\* the keyword arguments tried at construction and at fit
ConstructorKwargs == {EmptyDict, [shuffle |-> TRUE, epochs |-> 2]}
FitKwargs == {EmptyDict, [shuffle |-> TRUE], [epochs |-> 3]}

\* an estimator of one of the three classes was constructed; nothing was
\* called on it.  lookahead is the class property (KerasAutoEncoder has none).
InitEstimator ==
    /\ X \in Tables
    /\ lookback_window \in 1..MaxLength
    /\ batch_size \in 1..MaxBatch
    /\ config \in Configs
    /\ est \in {NewEstimator(cls, kwargs) : cls \in Classes, kwargs \in ConstructorKwargs}
    /\ lookahead = Lookahead(est.cls)
    /\ tsg = NoTsg
    /\ res = NoRes
    /\ ret = NoOut
    /\ types = timeseries_generators.types
    /\ call = NoCall
    /\ given_model = Value
    /\ given_metadata = EmptyDict
    /\ extracted = NoExtraction

\* est.fit(X, y, **kwargs) on an estimator fit was not called on
Fit ==
    /\ ~est.called
    /\ ret = NoOut
    /\ IF est.cls \in LSTMClasses
       THEN \E kwargs \in FitKwargs :
               est' \in fit(est, X, X, kwargs, lookback_window, batch_size,
                           Lookahead(est.cls), config)
       ELSE est' \in base_fit(est)
    /\ UNCHANGED <<inputs, registry, extraction, tsg, res, ret>>

\* the first n rows of X, for every n: the tables predict and score are given
Prefixes == {TableHead(X, n) : n \in 0..X.n}

\* est.predict(data)
Predict ==
    /\ ret = NoOut
    /\ \E data \in Prefixes :
          \E o \in {IF est.cls \in LSTMClasses
                    THEN lstm_predict(est, data, lookback_window, Lookahead(est.cls), config)
                    ELSE base_predict(est, data)} :
             ret' = [op |-> o.op, kind |-> o.kind, rows |-> o.rows, n |-> data.n]
    /\ UNCHANGED <<inputs, registry, extraction, tsg, res, est>>

\* est.score(data, y) with y of the shape of data
Score ==
    /\ ret = NoOut
    /\ \E data \in Prefixes :
          \E o \in {IF est.cls \in LSTMClasses
                    THEN lstm_score(est, data, data, lookback_window,
                                    Lookahead(est.cls), config)
                    ELSE autoencoder_score(est, data, data)} :
             ret' = [op |-> o.op, kind |-> o.kind, rows |-> o.rows, n |-> data.n]
    /\ UNCHANGED <<inputs, registry, extraction, tsg, res, est>>

\* the caller is done with the result, or has handled the error
Done ==
    /\ ret # NoOut
    /\ ret' = NoOut
    /\ UNCHANGED <<inputs, registry, extraction, tsg, res, est>>

NextEstimator == Fit \/ Predict \/ Score \/ Done

SpecEstimator == InitEstimator /\ [][NextEstimator]_vars

\* ------------------------------------------------- the registry's runs
\* the names and classes registrations are tried with
TypeNames == {"GordoTimeseriesGenerator", "Custom"}
GeneratorClasses == {"DefaultTimeseriesGenertor", "GordoTimeseriesGenerator"}

\* a batch size no caller of create_keras_timeseriesgenerator passes
OtherBatch == MaxBatch + 1

\* the configurations given to create_from_config: none, ones of a registered
\* or registrable type, with and without an entry the shared keyword arguments
\* also have, one without "type" and one of a type never registered
RegistryConfigs ==
    {None,
     [type |-> "GordoTimeseriesGenerator"],
     [type |-> "GordoTimeseriesGenerator", shuffle |-> TRUE],
     [type |-> "GordoTimeseriesGenerator", batch_size |-> OtherBatch],
     [type |-> "Custom"],
     [type |-> "Custom", batch_size |-> OtherBatch],
     [shuffle |-> TRUE],
     [type |-> "Unknown"]}

\* the tables without gaps
GapFree ==
    {T \in Tables : T.frame => \A r \in 1..(T.n - 1) : T.index[r + 1] - T.index[r] = Step}

\* the registry after the module is imported and the arguments of a call of
\* create_keras_timeseriesgenerator
InitRegistry ==
    /\ X \in GapFree
    /\ lookback_window \in 1..MaxLength
    /\ batch_size \in 1..MaxBatch
    /\ lookahead \in (-1)..MaxLookahead
    /\ config \in RegistryConfigs
    /\ tsg = NoTsg
    /\ res = NoRes
    /\ est = NoEstimator
    /\ ret = NoOut
    /\ types = timeseries_generators.types
    /\ call = NoCall
    /\ given_model = Value
    /\ given_metadata = EmptyDict
    /\ extracted = NoExtraction

\* the keyword arguments create_keras_timeseriesgenerator shares with every
\* generator class
SharedKwargs ==
    [data |-> X, targets |-> X, length |-> lookback_window,
     batch_size |-> batch_size, lookahead |-> lookahead]

\* timeseries_generators(type_name)(cls)
Register ==
    /\ \E type_name \in TypeNames, cls \in GeneratorClasses :
          \E r \in {register(types, type_name, cls)} :
             /\ types' = r.types
             /\ call' = [op |-> "register", kind |-> r.kind, name |-> type_name,
                         cls |-> cls, kwargs |-> EmptyDict, returned |-> "None"]
    /\ UNCHANGED <<inputs, extraction, tsg, res, est, ret>>

\* timeseries_generators.create_from_config(config, **kwargs)
CreateFromConfig ==
    /\ \E c \in {create_from_config_call(
                    [default_type |-> timeseries_generators.default_type,
                     types |-> types], config, SharedKwargs)} :
          /\ config' = c.config
          /\ types' = c.types
          /\ call' = [op |-> "create_from_config", kind |-> c.kind,
                      name |-> IF config # None /\ "type" \in DOMAIN config
                               THEN config.type ELSE "None",
                      cls |-> c.cls, kwargs |-> c.kwargs,
                      returned |-> Returned(c).kind]
    /\ UNCHANGED <<X, lookback_window, batch_size, lookahead, tsg, res, est, ret,
                   extraction>>

NextRegistry == Register \/ CreateFromConfig

SpecRegistry == InitRegistry /\ [][NextRegistry]_vars

\* ---------------------------------------- the runs of metadata extraction
\* the models without attributes of their own: two GordoBase models with
\* metadata under keys of their own, and another estimator
Leaves == {GordoModel([a |-> 1], << >>), GordoModel([b |-> 2], << >>), Estimator(<< >>)}

\* the sequences of at most n leaves
RECURSIVE Steps(_)
Steps(n) ==
    IF n = 0 THEN {<< >>}
    ELSE Steps(n - 1) \cup {Append(s, l) : s \in Steps(n - 1), l \in Leaves}

\* the pipelines of one to MaxSteps steps
Pipelines == {Pipeline(s) : s \in Steps(MaxSteps) \ {<< >>}}

\* the objects given: a leaf, a pipeline, or an estimator or GordoBase model
\* holding a pipeline in an attribute
Models ==
    Leaves \cup Pipelines
        \cup {Estimator(<<Value, p>>) : p \in Pipelines}
        \cup {GordoModel([b |-> 2], <<p>>) : p \in Pipelines}

\* the metadata mappings the caller starts from
Metadatas == {EmptyDict, [a |-> 0], [c |-> 0]}

InitMetadata ==
    /\ X = [frame |-> FALSE, n |-> 0, index |-> << >>]
    /\ lookback_window = 1
    /\ batch_size = 1
    /\ lookahead = 1
    /\ config = None
    /\ tsg = NoTsg
    /\ res = NoRes
    /\ est = NoEstimator
    /\ ret = NoOut
    /\ types = timeseries_generators.types
    /\ call = NoCall
    /\ given_model \in Models
    /\ given_metadata \in Metadatas
    /\ extracted = NoExtraction

\* extract_metadata_from_model(given_model, given_metadata); the function works
\* on a copy of the mapping it is given
Extract ==
    /\ extracted.kind = "None"
    /\ \E r \in {extract_metadata_from_model(given_model, given_metadata)} :
          extracted' = [kind |-> r.kind, metadata |-> r.metadata,
                        given |-> given_metadata]
    /\ UNCHANGED <<inputs, registry, tsg, res, est, ret, given_model, given_metadata>>

NextMetadata == Extract

SpecMetadata == InitMetadata /\ [][NextMetadata]_vars

\* ------------------------------------------------------------ properties
\* the active containers of the generator
Containers == tsg.generators_containers

\* the batches of the containers before container c
RECURSIVE BatchesBefore(_, _)
BatchesBefore(containers, c) ==
    IF c <= 1 THEN 0
    ELSE BatchesBefore(containers, c - 1) + KerasLen(containers[c - 1].generator)

\* the last outcome is that of an index inside [0, len)
InRange == res.kind # "None" /\ 0 <= res.index /\ res.index < res.len

\* the generator is as its constructor left it: filter_chunks has changed nothing
AsConstructed ==
    tsg = GordoTimeseriesGenerator(X, X, lookback_window, batch_size,
                                   Kw(config, "shuffle", FALSE), Step, lookahead)

\* the table rows a sample is built from, the target last
SampleRows(sample) == Append(sample.window, sample.target)

\* the number of maximal runs of rows one step apart
NumRuns(index) ==
    IF Len(index) = 0 THEN 0
    ELSE 1 + Cardinality({r \in 1..(Len(index) - 1) : index[r + 1] - index[r] # Step})

RECURSIVE SumSizes(_, _)
SumSizes(chunks, upto) ==
    IF upto = 0 THEN 0 ELSE SumSizes(chunks, upto - 1) + chunks[upto].size

\* C1: in every state of a GordoTimeseriesGenerator, filtered or not, len() is
\* the sum of the batch counts of the active containers' generators, and
\* __getitem__ maps every index i of [0, len()) to the one container c and local
\* index l with l = i - (batches of the containers before c), 0 <= l < len(c).
C1_GlobalIndexMapsToOneContainer ==
    IsGordo =>
        /\ GordoLen(tsg) = BatchesBefore(Containers, Len(Containers) + 1)
        /\ \A i \in 0..(GordoLen(tsg) - 1) :
              LET at == GordoLocate(tsg, i)
                  fits(c) == /\ 0 <= i - BatchesBefore(Containers, c)
                             /\ i - BatchesBefore(Containers, c)
                                    < KerasLen(Containers[c].generator)
              IN /\ at.container \in 1..Len(Containers)
                 /\ at.gen_i = i - BatchesBefore(Containers, at.container)
                 /\ {c \in 1..Len(Containers) : fits(c)} = {at.container}

\* C1 witness: after a filter_chunks that selected one container twice, a batch
\* was read through the second of the two
C1_Witness ==
    /\ IsGordo
    /\ Len(Containers) >= 2
    /\ Containers[1] = Containers[2]
    /\ InRange /\ res.kind = "batch" /\ res.container = 2

\* C2: every sample of a batch read at an index of [0, len()) is built from
\* consecutive table rows one step apart, all inside one chunk's time range.
C2_WindowsStayInsideOneChunk ==
    (IsGordo /\ InRange /\ res.kind = "batch") =>
        \A s \in 1..Len(res.samples) :
            LET rows == SampleRows(res.samples[s])
            IN /\ Len(rows) >= 2
               /\ \A k \in 1..Len(rows) : rows[k] \in 1..X.n
               /\ \A k \in 1..(Len(rows) - 1) :
                     /\ rows[k + 1] = rows[k] + 1
                     /\ X.index[rows[k + 1]] - X.index[rows[k]] = Step
               /\ \E j \in 1..Len(tsg.consecutive_chunks) :
                     \A k \in 1..Len(rows) :
                         /\ tsg.consecutive_chunks[j].start_ts <= X.index[rows[k]]
                         /\ X.index[rows[k]] <= tsg.consecutive_chunks[j].end_ts

\* C2 witness: the table has a gap and a batch was read from the chunk after it
C2_Witness ==
    /\ IsGordo
    /\ NumRuns(X.index) >= 2
    /\ InRange /\ res.kind = "batch" /\ res.container = 2 /\ res.samples # << >>

\* C3: __getitem__(i) raises IndexError for every i outside [0, len()), negative
\* ones included, without fetching from a per-chunk generator.
C3_OutOfRangeRaisesIndexError ==
    (IsGordo /\ res.kind # "None" /\ ~InRange) =>
        (res.kind = "IndexError" /\ res.container = 0)

\* C4: find_consecutive_chunks returns one chunk per maximal run of rows one
\* step apart, in time order, with sizes summing to the number of rows; a
\* gap-free table gives one chunk from the first to the last timestamp.
C4_OneChunkPerRun ==
    IsGordo =>
        LET chunks == tsg.consecutive_chunks
        IN /\ Len(chunks) = NumRuns(X.index)
           /\ SumSizes(chunks, Len(chunks)) = X.n
           /\ \A j \in 1..(Len(chunks) - 1) : chunks[j].end_ts < chunks[j + 1].start_ts
           /\ NumRuns(X.index) = 1 =>
                 chunks = <<TimeseriesChunk(X.index[1], X.index[X.n], X.n)>>

\* C5: the default windower pairs each window with the target row `lookahead`
\* positions after the window's last input row (the same position for lookahead
\* 0), both original rows of the table; for lookahead 1 it windows the arrays
\* it was given, unchanged.
C5_DefaultLookaheadAlignment ==
    /\ (IsDefault /\ lookahead = 1) =>
          (tsg.data = RowIds(X.n) /\ tsg.targets = RowIds(X.n))
    /\ (IsDefault /\ InRange /\ res.kind = "batch") =>
          \A s \in 1..Len(res.samples) :
              LET window == res.samples[s].window
                  target == res.samples[s].target
              IN /\ Len(window) = lookback_window
                 /\ window[Len(window)] \in 1..X.n
                 /\ target \in 1..X.n
                 /\ target = window[Len(window)] + lookahead

\* C5 witness: a batch of the default windower with a lookahead above 1
C5_Witness ==
    /\ IsDefault /\ lookahead > 1
    /\ InRange /\ res.kind = "batch" /\ res.samples # << >>

\* the same (window, target) pairs at index i, shuffling aside
SameBatch(gordo, default, i) ==
    {o.samples : o \in GordoGetItem(gordo, i)} = {o.samples : o \in KerasGetItem(default, i)}

\* C6: on a gap-free table the GordoTimeseriesGenerator has as many batches, and
\* the same (window, target) pairs in them, as the default windower built with
\* the same window length, batch size and lookahead.
C6_GordoAlignsLikeDefault ==
    (IsGordo /\ AsConstructed /\ NumRuns(X.index) = 1 /\ lookahead >= 0
        /\ ~Kw(config, "shuffle", FALSE)) =>
        LET default == DefaultTimeseriesGenertor(X, X, lookahead, lookback_window,
                                                 batch_size)
        IN /\ default.kind = "TimeseriesGenerator"
           /\ GordoLen(tsg) = KerasLen(default)
           /\ \A i \in 0..(GordoLen(tsg) - 1) : SameBatch(tsg, default, i)

\* C7: every sample of a batch read at an index of [0, len()) has exactly the
\* window length requested at construction.
C7_EveryWindowHasRequestedLength ==
    (IsGordo /\ InRange /\ res.kind = "batch") =>
        \A s \in 1..Len(res.samples) : Len(res.samples[s].window) = lookback_window

\* a chunk whose rows can form a window of the requested length and its target
CanWindow(chunk) == Len(LocSlice(X, chunk.start_ts, chunk.end_ts)) > lookback_window

InSeq(e, seq) == \E k \in 1..Len(seq) : seq[k] = e

\* C8: after construction every discovered chunk is either in failed_chunks,
\* when its rows cannot form one window of the requested length, or else in
\* exactly one container; failed chunks have no container; and construction
\* raises exactly when no chunk yields a container.
C8_FailedChunksAreTheShortOnes ==
    /\ (IsGordo /\ AsConstructed) =>
          /\ Containers # << >>
          /\ \A j \in 1..Len(tsg.consecutive_chunks) :
                LET chunk == tsg.consecutive_chunks[j]
                    holders == {c \in 1..Len(Containers) : Containers[c].chunk = chunk}
                IN /\ InSeq(chunk, tsg.failed_chunks) <=> ~CanWindow(chunk)
                   /\ Cardinality(holders) = IF CanWindow(chunk) THEN 1 ELSE 0
    /\ (tsg.kind = "ValueError" /\ config # None /\ X.frame) =>
          \A j \in 1..Len(find_consecutive_chunks(X, Step)) :
              ~CanWindow(find_consecutive_chunks(X, Step)[j])

\* C9: create_keras_timeseriesgenerator with a negative lookahead raises
\* ValueError whichever windowing strategy the configuration selects.
C9_NegativeLookaheadRejected ==
    (lookahead < 0 /\ tsg.kind # "None") => tsg.kind = "ValueError"

\* C10: fit with lookback_window >= len(X) raises ValueError before any
\* windower is built, for an array and for a data frame, and leaves the
\* estimator without a model.
C10_FitRejectsLongLookback ==
    (est.cls \in LSTMClasses /\ est.called /\ lookback_window >= X.n) =>
        /\ est.raised = "ValueError"
        /\ ~InSeq("prime_tsg", est.trace)
        /\ ~est.model

\* the batches a generator that does not shuffle gives at index i
Batches(i) == {o \in GordoGetItem(tsg, i) : o.kind = "batch"}

\* the timestamps at which the windows of a batch start
WindowStarts(samples) ==
    {X.index[samples[s].window[1]] : s \in {t \in 1..Len(samples) : samples[t].window # << >>}}

\* C16: with shuffling off the active containers are in order of chunk start
\* time, every window of batch i starts no later than every window of batch j
\* for i < j, and consecutive windows of one container start one step apart.
C16_BatchesInTimeOrder ==
    (IsGordo /\ ~Kw(config, "shuffle", FALSE)) =>
        /\ \A a, b \in 1..Len(Containers) :
              a < b => Containers[a].chunk.start_ts < Containers[b].chunk.start_ts
        /\ \A i, j \in 0..(GordoLen(tsg) - 1) :
              i < j => \A oi \in Batches(i), oj \in Batches(j) :
                          \A s \in WindowStarts(oi.samples), t \in WindowStarts(oj.samples) :
                              s <= t
        /\ \A i \in 0..(GordoLen(tsg) - 1) : \A o \in Batches(i) :
              \A s \in 1..(Len(o.samples) - 1) :
                  X.index[o.samples[s + 1].window[1]]
                      = X.index[o.samples[s].window[1]] + Step

\* C17: a filter_chunks call leaves as active containers only ones that were
\* active before, none of them twice, with len() the sum of their batch counts,
\* and leaves consecutive_chunks and failed_chunks as they were.
C17_FilterSelectsSubset ==
    [][(IsGordo /\ tsg' # tsg) =>
          LET after == tsg'.generators_containers
          IN /\ \A k \in 1..Len(after) : InSeq(after[k], Containers)
             /\ \A a, b \in 1..Len(after) : a # b => after[a] # after[b]
             /\ GordoLen(tsg') = BatchesBefore(after, Len(after) + 1)
             /\ tsg'.consecutive_chunks = tsg.consecutive_chunks
             /\ tsg'.failed_chunks = tsg.failed_chunks]_vars

\* the samples of the first n batches of a generator that does not shuffle
RECURSIVE SamplesUpTo(_, _)
SamplesUpTo(gen, n) ==
    IF n = 0 THEN << >>
    ELSE SamplesUpTo(gen, n - 1) \o (CHOOSE o \in KerasGetItem(gen, n - 1) : TRUE).samples

\* the number of windows of an N-row table: N + 1 - lookahead - lookback_window
NumWindows == X.n + 1 - lookahead - lookback_window

\* C18: the default windower over N rows has N + 1 - lookahead - lookback_window
\* windows, each in exactly one batch, in ceil(windows / batch_size) batches of
\* at most batch_size samples.
C18_DefaultWindowerCoversEveryWindowOnce ==
    IsDefault =>
        LET all == SamplesUpTo(tsg, KerasLen(tsg))
        IN /\ KerasLen(tsg) = (NumWindows + batch_size - 1) \div batch_size
           /\ \A i \in 0..(KerasLen(tsg) - 1) : \A o \in KerasGetItem(tsg, i) :
                 o.kind = "batch" /\ Len(o.samples) \in 1..batch_size
           /\ Len(all) = NumWindows
           /\ {all[s].window : s \in 1..Len(all)}
                 = {[j \in 1..lookback_window |-> p - lookback_window + j]
                    : p \in lookback_window..(X.n - lookahead)}

\* C18 witness: the last batch of a default windower with two batches or more
\* was read and is a partial one
C18_Witness ==
    /\ IsDefault /\ KerasLen(tsg) >= 2 /\ NumWindows % batch_size # 0
    /\ InRange /\ res.kind = "batch" /\ res.index = KerasLen(tsg) - 1
    /\ Len(res.samples) < batch_size

\* the rows whose timestamp lies in the closed time range of a chunk
RowsIn(chunk) == {r \in 1..X.n : chunk.start_ts <= X.index[r] /\ X.index[r] <= chunk.end_ts}

\* C20: at a gap find_consecutive_chunks ends the open chunk at the previous
\* timestamp and starts the next one at the timestamp after the gap; every row
\* lies in the time range of exactly one chunk, and a chunk's size is the
\* number of rows in its range.
C20_ChunksPartitionTheRows ==
    IsGordo =>
        LET chunks == tsg.consecutive_chunks
        IN /\ \A r \in 2..X.n :
                 X.index[r] - X.index[r - 1] # Step =>
                     /\ \E j \in 1..Len(chunks) : chunks[j].end_ts = X.index[r - 1]
                     /\ \E j \in 1..Len(chunks) : chunks[j].start_ts = X.index[r]
           /\ \A r \in 1..X.n :
                 Cardinality({j \in 1..Len(chunks) : r \in RowsIn(chunks[j])}) = 1
           /\ \A j \in 1..Len(chunks) : chunks[j].size = Cardinality(RowsIn(chunks[j]))

\* fit was called on the estimator and returned
Fitted == est.called /\ est.raised = "None"

\* C11: predict of a fitted KerasLSTMForecast or KerasLSTMAutoEncoder with the
\* default windower, on a gap-free table of N > lookback_window rows, returns
\* exactly N - lookback_window rows.
C11_PredictReturnsNMinusLookback ==
    (ret.op = "predict" /\ est.cls \in LSTMClasses /\ Fitted /\ config = None
        /\ NumRuns(X.index) <= 1 /\ ret.n > lookback_window) =>
        (ret.kind = "rows" /\ ret.rows = ret.n - lookback_window)

\* C12: predict and score of an estimator of any of the three classes on which
\* fit has not completed raise NotFittedError.  (Neither call assigns to the
\* estimator.)
C12_UnfittedRaisesNotFittedError ==
    (ret.op \in {"predict", "score"} /\ ~Fitted) => ret.kind = "NotFittedError"

\* C15: when fit reaches its main phase, training is not shuffled: fit_generator
\* is called with shuffle False, no forwarded keyword argument sets it, and the
\* generator it consumes does not shuffle, whatever the keyword arguments of
\* the constructor and of fit and whatever the timeseries_generator config.
C15_MainPhaseNeverShuffles ==
    est.main.ran =>
        /\ ~est.main.shuffle
        /\ "shuffle" \notin DOMAIN est.main.gen_kwargs
        /\ ~est.main.tsg_shuffle

\* a step that is a call of create_from_config, of a registration
CreateStep == call' # call /\ call'.op = "create_from_config"
RegisterStep == call' # call /\ call'.op = "register"

\* C13: create_from_config calls the default constructor with exactly the
\* shared kwargs when config is None; raises when config has no "type" or an
\* unregistered one; else calls the constructor registered under that name with
\* the other config entries merged with the shared kwargs, the shared kwargs
\* winning; config and the registry are as they were.
C13_CreateFromConfigMergesSharedKwargs ==
    [][CreateStep =>
          /\ config' = config /\ types' = types
          /\ IF config = None
             THEN /\ call'.kind = "call"
                  /\ call'.cls = timeseries_generators.default_type
                  /\ call'.kwargs = SharedKwargs
             ELSE IF "type" \notin DOMAIN config THEN call'.kind = "ValueError"
             ELSE IF config.type \notin DOMAIN types THEN call'.kind = "ValueError"
             ELSE /\ call'.kind = "call"
                  /\ call'.cls = types[config.type]
                  /\ DOMAIN call'.kwargs
                        = (DOMAIN config \ {"type"}) \cup DOMAIN SharedKwargs
                  /\ \A k \in DOMAIN call'.kwargs :
                        call'.kwargs[k] = IF k \in DOMAIN SharedKwargs
                                          THEN SharedKwargs[k] ELSE config[k]]_vars

\* C13 witness: a config of a type registered after import, with a batch_size
\* entry of its own, was resolved to a constructor call
C13_Witness ==
    /\ call.op = "create_from_config" /\ call.kind = "call" /\ call.name = "Custom"
    /\ "batch_size" \in DOMAIN config /\ config.batch_size # batch_size

\* C14: a registration under a registered name raises and leaves the registry
\* as it was; under a new name it binds the name; no step changes the class a
\* name is bound to; and create_from_config resolves every registered name to
\* the class bound to it.
C14_FirstRegistrationStays ==
    [][/\ RegisterStep =>
             IF call'.name \in DOMAIN types
             THEN call'.kind = "ValueError" /\ types' = types
             ELSE /\ call'.kind = "registered"
                  /\ DOMAIN types' = DOMAIN types \cup {call'.name}
                  /\ types'[call'.name] = call'.cls
       /\ \A n \in DOMAIN types : n \in DOMAIN types' /\ types'[n] = types[n]
       /\ (CreateStep /\ call'.name \in DOMAIN types) =>
             (call'.kind = "call" /\ call'.cls = types[call'.name])]_vars

\* C14 witness: a second registration of a name, with another class, was
\* turned down
C14_Witness ==
    /\ call.op = "register" /\ call.kind = "ValueError" /\ call.name = "Custom"
    /\ "Custom" \in DOMAIN types /\ types["Custom"] # call.cls

\* the pipeline handed over, or the pipelines among the attribute values
PipelinesOf(model) ==
    IF model.type = "Pipeline" THEN {model}
    ELSE IF model.type = "value" THEN {}
    ELSE {model.attrs[i] : i \in {j \in 1..Len(model.attrs) : model.attrs[j].type = "Pipeline"}}

FinalStep(pipeline) == pipeline.steps[Len(pipeline.steps)]

\* the two mappings have the same entries
SameDict(d, e) == DOMAIN d = DOMAIN e /\ \A k \in DOMAIN d : d[k] = e[k]

\* C19: for a Pipeline of one or more steps, given directly or as an attribute
\* value, whose last step is a GordoBase model, extract_metadata_from_model
\* returns a mapping holding that model's get_metadata() entries; the caller's
\* mapping is as it was.
C19_MetadataOfFinalStep ==
    extracted.kind # "None" =>
        /\ SameDict(given_metadata, extracted.given)
        /\ \A p \in PipelinesOf(given_model) :
              FinalStep(p).type = "GordoBase" =>
                  /\ extracted.kind = "ok"
                  /\ \A k \in DOMAIN FinalStep(p).meta :
                        /\ k \in DOMAIN extracted.metadata
                        /\ extracted.metadata[k] = FinalStep(p).meta[k]

\* the steps of fit in the order of the code; a data frame has no size check
PhaseOrder(frame) ==
    (IF frame THEN << >> ELSE <<"validate">>)
        \o <<"prime_tsg", "prime_fit", "main_tsg", "main_fit">>

IsPrefix(s, t) == Len(s) <= Len(t) /\ \A i \in 1..Len(s) : s[i] = t[i]

HasBatch(gen) ==
    /\ gen.kind # "ValueError"
    /\ (IF gen.kind = "GordoTimeseriesGenerator" THEN GordoLen(gen) ELSE KerasLen(gen)) >= 1

\* C22: when the table is longer than lookback_window and the windower over the
\* whole table has a batch, the priming windower over the first
\* lookahead + lookback_window rows has a batch too: fit takes its batch 0,
\* primes the model and reaches the main phase, for lookahead 0 and 1 and for
\* both windowing strategies.
C22_PrimingWindowerHasABatch ==
    (est.cls \in LSTMClasses /\ est.called /\ X.n > lookback_window
        /\ HasBatch(create_keras_timeseriesgenerator(X, X, batch_size, lookback_window,
                                                     lookahead, config))) =>
        (est.prime.ran /\ est.main.ran /\ est.raised = "None")

====
